---- MODULE Spec2Model ----
(***************************************************************************)
(* Model of the ATOM task orchestrator                                     *)
(* (backend/app/services/orchestrator.py and its HTTP routes in            *)
(* backend/app/api/orchestrator.py).                                       *)
(*                                                                         *)
(* A unit is one invocation of Orchestrator.execute_task, queued by the    *)
(* start route as a background task.  Each unit owns the TaskExecution     *)
(* object it creates; the registry (Orchestrator.executions) maps task ids *)
(* to those objects.  The planner and the two executors are collaborators  *)
(* that return or raise.                                                   *)
(*                                                                         *)
(* Python's Optional values are modelled as sequences of length at most    *)
(* one: None is << >>, a set value v is << v >>.  Python lists are         *)
(* sequences, so the step with step_index k is steps[k + 1].               *)
(***************************************************************************)
EXTENDS Integers, Sequences, FiniteSets, TLC

\* ------------------------------------------------------------- bounds ----

\* The longest plan the planner returns.
MaxSteps == 2

\* The most actions the browser agent's trace list holds.
MaxTrace == 2

\* The background units: Units for the concurrent specification, SoloUnits
\* for the specification of a single execute_task call.
Units == {"A", "B"}
SoloUnits == {"A"}

\* The ids uuid4 may draw, and the ids a status poll may ask for.
TaskIds == {"t1", "t2", "t3"}
SoloIds == {"t1"}

\* ------------------------------------------------------------ values -----

None == << >>
Some(v) == << v >>

\* dict.get(key, default): the default only when the key is absent.
DictGet(opt, default) == IF opt = None THEN default ELSE opt[1]

\* Task strings of a start request; the empty one is rejected by the route.
Tasks == {"", "Book a flight and summarize results"}

\* Values of a descriptor's "type" key.
StepTypes == {"browser", "SWE", "database"}

\* Values of a descriptor's "instruction" key.
Instructions == {"search flights"}

\* Dependency indices a descriptor may declare: in range, negative, too large.
DepIdx == (0 - 1) .. MaxSteps

\* Dependency lists: null (None), or a list of at most one index.
DepLists == {None, Some(<< >>)} \cup {Some(<< j >>) : j \in DepIdx}

\* A plan descriptor {type, instruction, dependencies}; an absent type or
\* instruction key is None.
Descriptors ==
    [type : {None} \cup {Some(t) : t \in StepTypes},
     instruction : {None} \cup {Some(s) : s \in Instructions},
     dependencies : DepLists]

SeqsUpTo(S, n) == UNION {[1 .. k -> S] : k \in 0 .. n}

\* What plan_task returns: a dict whose "steps" key may be absent.
Plans == [steps : {None} \cup {Some(s) : s \in SeqsUpTo(Descriptors, MaxSteps)}]

\* Descriptors and plans of the concurrent specification.
ConcDescriptors ==
    {[type |-> Some("browser"), instruction |-> Some("search flights"),
      dependencies |-> None],
     [type |-> Some("database"), instruction |-> Some("search flights"),
      dependencies |-> Some(<< 0 >>)]}

ConcPlans == [steps : {Some(s) : s \in SeqsUpTo(ConcDescriptors, MaxSteps)}]

\* Plans of the specification of concurrent browser runs: browser steps only.
BrowserDescriptors ==
    {[type |-> Some("browser"), instruction |-> Some("search flights"),
      dependencies |-> None]}

BrowserPlans == [steps : {Some(s) : s \in SeqsUpTo(BrowserDescriptors, MaxSteps)}]

\* The "action" a browser run reports to the step callback.
BrowserActions == {"click"}

\* str(e) of an exception raised by the planner or by an executor.
PlannerErrors == {"network error"}
ExecutorErrors == {"executor crashed"}

\* Executor payloads; the orchestrator never looks inside.
Payloads == [success : BOOLEAN]

\* ------------------------------------------------------------- state -----

VARIABLES
    pc,            \* where each unit is in execute_task
    background,    \* background_tasks: unit -> the (task_id, task) it was queued with
    exec,          \* the TaskExecution objects, by the unit that created them
    executions,    \* Orchestrator.executions: task id -> object (its unit)
    plan,          \* execute_task's local plan
    idx,           \* execute_task's loop variable i
    calls,         \* history: the executor calls of each unit, in order, with their outcome
    unmetAtReach,  \* history: the steps reached while a dependency of their own was unmet
    response,      \* the HTTP response of the route that ran in the latest step
    browser_steps  \* browser_agent.steps: the trace list of the module-level BrowserAgent

vars == << pc, background, exec, executions, plan, idx, calls, unmetAtReach, response,
           browser_steps >>

NoResponse == [route |-> "none", code |-> 0, task_id |-> None, body |-> None]

\* ----------------------------------------------------- data model --------

TaskStep(i, type, instruction) ==
    [step_index |-> i, type |-> type, instruction |-> instruction,
     status |-> "pending", result |-> None, error |-> None]

\* An execution created with the field's default status.
TaskExecutionDefaultStatus(task_id, task, status) ==
    [task_id |-> task_id, original_task |-> task, status |-> "pending",
     steps |-> << >>, current_step |-> 0, result |-> None, error |-> None]

TaskExecution(task_id, task, status) ==
    [task_id |-> task_id, original_task |-> task, status |-> status,
     steps |-> << >>, current_step |-> 0, result |-> None, error |-> None]

\* str.lower() on the type strings in use.
Lower(t) == IF t = "SWE" THEN "swe" ELSE IF t = "Browser" THEN "browser" ELSE t

\* Steps numbered from one.
BuildStepsOneBased(descs) ==
    [k \in 1 .. Len(descs) |->
        TaskStep(k, DictGet(descs[k].type, "unknown"),
                 DictGet(descs[k].instruction, ""))]

\* The steps built from the plan's descriptors.
BuildSteps(descs) ==
    [k \in 1 .. Len(descs) |->
        TaskStep(k - 1, DictGet(descs[k].type, "unknown"),
                 DictGet(descs[k].instruction, ""))]

\* plan.get("steps", [placeholder]): one placeholder step for an absent key.
PlanStepsPlaceholder(p) ==
    DictGet(p.steps, << [type |-> None, instruction |-> None, dependencies |-> None] >>)

\* plan.get("steps", [])
PlanSteps(p) == DictGet(p.steps, << >>)

\* Python truthiness of a dependency list.
Truthy(deps) == deps # None /\ Len(deps[1]) > 0

\* The first index of deps, from position k on, that names an existing step
\* which is not completed; None when there is none.
RECURSIVE FirstUnmet(_, _, _)
FirstUnmet(deps, steps, k) ==
    IF k > Len(deps) THEN None
    ELSE IF /\ deps[k] >= 0
            /\ deps[k] < Len(steps)
            /\ steps[deps[k] + 1].status # "completed"
         THEN Some(deps[k])
         ELSE FirstUnmet(deps, steps, k + 1)

\* The dependency the gate of a step trips on, for a declared list.
Gate(deps, steps) == IF Truthy(deps) THEN FirstUnmet(deps[1], steps, 1) ELSE None

\* The descriptor the loop variable step_data is left bound to.
StepData(u) == PlanSteps(plan[u][1])[Len(PlanSteps(plan[u][1]))]

\* The list of the step the loop is at.
GatingDependenciesOwn(u) == PlanSteps(plan[u][1])[idx[u] + 1].dependencies

\* The list consulted by the gate of every step.
GatingDependencies(u) == StepData(u).dependencies

\* The list the step with index i declares itself.
OwnDependencies(u, i) == PlanSteps(plan[u][1])[i + 1].dependencies

DependencyMessage(dep) == "Dependency " \o ToString(dep) \o " not completed"
UnknownTypeMessage(type) == "Unknown step type: " \o type
StepFailedMessageNoIndex(i, msg) == "Step failed: " \o msg
StepFailedMessage(i, msg) == "Step " \o ToString(i) \o " failed: " \o msg

\* ----------------------------------------------------------- Init --------

Init ==
    /\ pc = [u \in Units |-> "idle"]
    /\ background = << >>
    /\ exec = << >>
    /\ executions = << >>
    /\ plan = [u \in Units |-> None]
    /\ idx = [u \in Units |-> 0]
    /\ calls = [u \in Units |-> << >>]
    /\ unmetAtReach = [u \in Units |-> {}]
    /\ response = NoResponse
    /\ browser_steps = << >>

\* ------------------------------------------------- object updates --------

\* A registry whose every key is rebound to the newest execution.
RegistryPutAll(reg, t, u) == [k \in DOMAIN reg \cup {t} |-> u]

\* A registry that keeps the record it already has under the key.
RegistryPutIfAbsent(reg, t, u) ==
    [k \in DOMAIN reg \cup {t} |-> IF k \in DOMAIN reg THEN reg[k] ELSE u]

\* self.executions[task_id] = execution
RegistryPut(reg, t, u) == [k \in DOMAIN reg \cup {t} |-> IF k = t THEN u ELSE reg[k]]

\* Orchestrator.get_execution: self.executions.get(task_id)
GetExecution(t) == IF t \in DOMAIN executions THEN Some(exec[executions[t]]) ELSE None

\* A dispatch that hands every type it does not know to the code executor.
ExecutorForDefaultSwe(type) ==
    IF Lower(type) = "browser" THEN Some("browser") ELSE Some("swe")

\* The executor a step type selects: run_browser_task, run_swe_agent or none.
ExecutorFor(type) ==
    IF Lower(type) = "browser" THEN Some("browser")
    ELSE IF Lower(type) = "swe" THEN Some("swe")
    ELSE None

\* A dispatch that forgets to mark the step running.
StepRunningForgotten(step) == step

StepRunning(step) == [step EXCEPT !.status = "running"]

\* A completion that stores the payload and leaves the step running.
StepCompletedKeepsRunning(step, result) == [step EXCEPT !.result = Some(result)]

\* A completion that fails the step when the payload reports no success.
StepCompletedChecksSuccess(step, result) ==
    IF result.success
    THEN [step EXCEPT !.status = "completed", !.result = Some(result)]
    ELSE [step EXCEPT !.status = "failed", !.result = Some(result)]

\* A completion that drops the payload.
StepCompletedNoResult(step, result) == [step EXCEPT !.status = "completed"]

StepCompleted(step, result) == [step EXCEPT !.status = "completed", !.result = Some(result)]

\* A failed step that keeps no message.
StepFailedNoError(step, msg) == [step EXCEPT !.status = "failed"]

StepFailed(step, msg) == [step EXCEPT !.status = "failed", !.error = Some(msg)]

\* A failure recorded under the status of a success.
ExecutionFailedAsCompleted(e, msg) == [e EXCEPT !.status = "completed", !.error = Some(msg)]

\* A failure that records the status and drops the message.
ExecutionFailedNoError(e, msg) == [e EXCEPT !.status = "failed"]

ExecutionFailed(e, msg) == [e EXCEPT !.status = "failed", !.error = Some(msg)]

\* A completion whose recap is empty.
ExecutionCompletedEmptyRecap(e) ==
    [e EXCEPT !.status = "completed", !.result = Some([steps |-> << >>])]

\* A completion that stores the recap and leaves the status as it is.
ExecutionCompletedNoStatus(e) ==
    [e EXCEPT !.result = Some([steps |-> [k \in 1 .. Len(e.steps) |-> e.steps[k]]])]

\* step.dict() keeps every field of the step as it is at the call.
ExecutionCompleted(e) ==
    [e EXCEPT !.status = "completed",
              !.result = Some([steps |-> [k \in 1 .. Len(e.steps) |-> e.steps[k]]])]

\* The execution with the step of index i replaced.
WithStep(e, i, step) == [e EXCEPT !.steps[i + 1] = step]

\* A loop that records the index after the one it is processing.
SetCurrentStepNext(e, i) == [e EXCEPT !.current_step = i + 1]

\* execution.current_step = i
SetCurrentStep(e, i) == [e EXCEPT !.current_step = i]

\* A loop that skips the step after a completed one.
NextIndexSkip(i) == i + 2

\* The loop's next index.
NextIndex(i) == i + 1

\* ---------------------------------------------------- API routes ---------

\* POST /execute with an empty task: rejected with 400, nothing is queued.
StartRejected ==
    /\ response' = [route |-> "execute", code |-> 400, task_id |-> None, body |-> None]
    /\ UNCHANGED << pc, background, exec, executions, plan, idx, calls, unmetAtReach, browser_steps >>

\* POST /execute: draws a fresh uuid4, queues execute_task(task_id, task) as a
\* background task and answers with the task id.
StartTaskExecution(u, t, task) ==
    /\ pc[u] = "idle"
    /\ task # ""
    /\ \A v \in DOMAIN background : background[v].task_id # t
    /\ background' = [v \in DOMAIN background \cup {u} |->
                        IF v = u THEN [task_id |-> t, task |-> task] ELSE background[v]]
    /\ pc' = [pc EXCEPT ![u] = "scheduled"]
    /\ response' = [route |-> "execute", code |-> 200, task_id |-> Some(t),
                    body |-> Some([status |-> "pending"])]
    /\ UNCHANGED << exec, executions, plan, idx, calls, unmetAtReach, browser_steps >>

\* A direct call of execute_task(task_id, task): the caller picks the id, and
\* nothing checks that it is new.
Invoke(u, t, task) ==
    /\ pc[u] = "idle"
    /\ background' = [v \in DOMAIN background \cup {u} |->
                        IF v = u THEN [task_id |-> t, task |-> task] ELSE background[v]]
    /\ pc' = [pc EXCEPT ![u] = "scheduled"]
    /\ response' = NoResponse
    /\ UNCHANGED << exec, executions, plan, idx, calls, unmetAtReach, browser_steps >>

\* A status route that removes the record it reads.
GetTaskStatusPop(t) ==
    /\ response' = IF GetExecution(t) = None
                   THEN [route |-> "status", code |-> 404, task_id |-> Some(t), body |-> None]
                   ELSE [route |-> "status", code |-> 200, task_id |-> Some(t),
                         body |-> Some(GetExecution(t)[1])]
    /\ executions' = [k \in DOMAIN executions \ {t} |-> executions[k]]
    /\ UNCHANGED << pc, background, exec, plan, idx, calls, unmetAtReach, browser_steps >>

\* GET /status/{task_id}: 404 when the registry has no record, else its dict.
GetTaskStatus(t) ==
    /\ response' = IF GetExecution(t) = None
                   THEN [route |-> "status", code |-> 404, task_id |-> Some(t), body |-> None]
                   ELSE [route |-> "status", code |-> 200, task_id |-> Some(t),
                         body |-> Some(GetExecution(t)[1])]
    /\ UNCHANGED << pc, background, exec, executions, plan, idx, calls, unmetAtReach, browser_steps >>

\* The records of the finished executions only.
GetExecutionsFinished ==
    [t \in {k \in DOMAIN executions : exec[executions[k]].status \in {"completed", "failed"}}
        |-> exec[executions[t]]]

\* get_executions: the dict of every record of the registry, by task id.
GetExecutions == [t \in DOMAIN executions |-> exec[executions[t]]]

\* GET /executions: every record of the registry.
ListExecutions ==
    /\ response' = [route |-> "executions", code |-> 200, task_id |-> None,
                    body |-> Some(GetExecutions)]
    /\ UNCHANGED << pc, background, exec, executions, plan, idx, calls, unmetAtReach, browser_steps >>

\* ------------------------------------------------ execute_task -----------

\* Lines 87-95: the execution is created in status "planning" and registered.
ExecuteTask(u) ==
    /\ pc[u] = "scheduled"
    /\ exec' = [v \in DOMAIN exec \cup {u} |->
                  IF v = u
                  THEN TaskExecution(background[u].task_id, background[u].task, "planning")
                  ELSE exec[v]]
    /\ executions' = RegistryPut(executions, background[u].task_id, u)
    /\ pc' = [pc EXCEPT ![u] = "planning"]
    /\ response' = NoResponse
    /\ UNCHANGED << background, plan, idx, calls, unmetAtReach, browser_steps >>

\* Lines 99-112: the planner returns one of the plans P; the steps are built
\* and stored.
PlannerReturns(u, P) ==
    /\ pc[u] = "planning"
    /\ \E p \in P :
          /\ plan' = [plan EXCEPT ![u] = Some(p)]
          /\ exec' = [exec EXCEPT ![u] = [@ EXCEPT !.steps = BuildSteps(PlanSteps(p)),
                                                   !.status = "executing"]]
    /\ idx' = [idx EXCEPT ![u] = 0]
    /\ pc' = [pc EXCEPT ![u] = "loop"]
    /\ response' = NoResponse
    /\ UNCHANGED << background, executions, calls, unmetAtReach, browser_steps >>

\* Lines 99, 147-151: the planner raises.
PlannerRaises(u, msg) ==
    /\ pc[u] = "planning"
    /\ exec' = [exec EXCEPT ![u] = ExecutionFailed(@, msg)]
    /\ pc' = [pc EXCEPT ![u] = "done"]
    /\ response' = NoResponse
    /\ UNCHANGED << background, executions, plan, idx, calls, unmetAtReach, browser_steps >>

\* Whether a dependency the step declares itself is unmet as the loop reaches it.
OwnUnmet(u, i) == Gate(OwnDependencies(u, i), exec[u].steps) # None

Reached(u, i) == IF OwnUnmet(u, i) THEN unmetAtReach[u] \cup {i} ELSE unmetAtReach[u]

\* Lines 115-131: the gate of step i trips; step and execution fail.
GateFails(u) ==
    LET i == idx[u]
        e == exec[u]
        dep == Gate(GatingDependencies(u), e.steps)
    IN  /\ pc[u] = "loop"
        /\ i < Len(e.steps)
        /\ dep # None
        /\ exec' = [exec EXCEPT ![u] =
                      ExecutionFailed(
                          WithStep(SetCurrentStep(e, i), i,
                                   StepFailed(e.steps[i + 1], DependencyMessage(dep[1]))),
                          StepFailedMessage(i, DependencyMessage(dep[1])))]
        /\ unmetAtReach' = [unmetAtReach EXCEPT ![u] = Reached(u, i)]
        /\ pc' = [pc EXCEPT ![u] = "done"]
        /\ response' = NoResponse
        /\ UNCHANGED << background, executions, plan, idx, calls, browser_steps >>

\* Lines 115-120, 135, 52-62: the gate of step i passes; _execute_step marks
\* the step running and calls the executor its type selects, if any.
BeginStep(u) ==
    LET i == idx[u]
        e == exec[u]
    IN  /\ pc[u] = "loop"
        /\ i < Len(e.steps)
        /\ Gate(GatingDependencies(u), e.steps) = None
        /\ exec' = [exec EXCEPT ![u] =
                      WithStep(SetCurrentStep(e, i), i, StepRunning(e.steps[i + 1]))]
        /\ calls' = [calls EXCEPT ![u] =
                       IF ExecutorFor(e.steps[i + 1].type) = None THEN @
                       ELSE Append(@, [step |-> i,
                                       executor |-> ExecutorFor(e.steps[i + 1].type)[1],
                                       outcome |-> "running"])]
        /\ unmetAtReach' = [unmetAtReach EXCEPT ![u] = Reached(u, i)]
        /\ pc' = [pc EXCEPT ![u] = "step"]
        /\ browser_steps' = IF ExecutorFor(e.steps[i + 1].type) = Some("browser")
                            THEN << >> ELSE browser_steps
        /\ response' = NoResponse
        /\ UNCHANGED << background, executions, plan, idx >>

\* Lines 60-69: the executor returns; the step is completed with its payload.
ExecutorReturns(u, payload) ==
    LET i == idx[u]
        e == exec[u]
    IN  /\ pc[u] = "step"
        /\ ExecutorFor(e.steps[i + 1].type) # None
        /\ exec' = [exec EXCEPT ![u] = WithStep(e, i, StepCompleted(e.steps[i + 1], payload))]
        /\ calls' = [calls EXCEPT ![u][Len(calls[u])].outcome = "returned"]
        /\ idx' = [idx EXCEPT ![u] = NextIndex(i)]
        /\ pc' = [pc EXCEPT ![u] = "loop"]
        /\ response' = NoResponse
        /\ UNCHANGED << background, executions, plan, unmetAtReach, browser_steps >>

\* Lines 70-74, 136-139: the executor raises; step and execution fail.
\* browser_agent.py 76-90: the agent of the unit's browser run reports an
\* action; the callback appends it to the trace list of the one BrowserAgent.
\* The field run is history: the unit whose browser run reported the action.
StepCallback(u, action) ==
    /\ pc[u] = "step"
    /\ ExecutorFor(exec[u].steps[idx[u] + 1].type) = Some("browser")
    /\ Len(browser_steps) < MaxTrace
    /\ browser_steps' = Append(browser_steps, [action |-> action, run |-> u])
    /\ response' = NoResponse
    /\ UNCHANGED << pc, background, exec, executions, plan, idx, calls, unmetAtReach >>

\* browser_agent.py 143-158, 177-178: what a browser run returns, with the
\* trace list of the BrowserAgent as it is then.
BrowserResult(success) == [success |-> success, steps |-> browser_steps]

\* Lines 59-60, 66-68: the browser executor of the unit's step returns.
BrowserReturns(u, success) ==
    /\ pc[u] = "step"
    /\ ExecutorFor(exec[u].steps[idx[u] + 1].type) = Some("browser")
    /\ ExecutorReturns(u, BrowserResult(success))

ExecutorRaises(u, msg) ==
    LET i == idx[u]
        e == exec[u]
    IN  /\ pc[u] = "step"
        /\ ExecutorFor(e.steps[i + 1].type) # None
        /\ exec' = [exec EXCEPT ![u] =
                      ExecutionFailed(WithStep(e, i, StepFailed(e.steps[i + 1], msg)),
                                      StepFailedMessage(i, msg))]
        /\ calls' = [calls EXCEPT ![u][Len(calls[u])].outcome = "raised"]
        /\ pc' = [pc EXCEPT ![u] = "done"]
        /\ response' = NoResponse
        /\ UNCHANGED << background, executions, plan, idx, unmetAtReach, browser_steps >>

\* Lines 63-64, 70-74, 136-139: no executor for the type; ValueError.
UnknownStepType(u) ==
    LET i == idx[u]
        e == exec[u]
        msg == UnknownTypeMessage(e.steps[i + 1].type)
    IN  /\ pc[u] = "step"
        /\ ExecutorFor(e.steps[i + 1].type) = None
        /\ exec' = [exec EXCEPT ![u] =
                      ExecutionFailed(WithStep(e, i, StepFailed(e.steps[i + 1], msg)),
                                      StepFailedMessage(i, msg))]
        /\ pc' = [pc EXCEPT ![u] = "done"]
        /\ response' = NoResponse
        /\ UNCHANGED << background, executions, plan, idx, calls, unmetAtReach, browser_steps >>

\* Lines 141-146: the loop is over; the execution is completed.
Complete(u) ==
    /\ pc[u] = "loop"
    /\ idx[u] >= Len(exec[u].steps)
    /\ exec' = [exec EXCEPT ![u] = ExecutionCompleted(@)]
    /\ pc' = [pc EXCEPT ![u] = "done"]
    /\ response' = NoResponse
    /\ UNCHANGED << background, executions, plan, idx, calls, unmetAtReach, browser_steps >>

\* ------------------------------------------------- specifications --------

\* One execute_task call, over every plan.
Next ==
    \/ \E u \in SoloUnits, t \in SoloIds, task \in Tasks : StartTaskExecution(u, t, task)
    \/ \E u \in SoloUnits : ExecuteTask(u)
    \/ \E u \in SoloUnits : PlannerReturns(u, Plans)
    \/ \E u \in SoloUnits, msg \in PlannerErrors : PlannerRaises(u, msg)
    \/ \E u \in SoloUnits : GateFails(u)
    \/ \E u \in SoloUnits : BeginStep(u)
    \/ \E u \in SoloUnits, payload \in Payloads : ExecutorReturns(u, payload)
    \/ \E u \in SoloUnits, msg \in ExecutorErrors : ExecutorRaises(u, msg)
    \/ \E u \in SoloUnits : UnknownStepType(u)
    \/ \E u \in SoloUnits : Complete(u)

Spec == Init /\ [][Next]_vars

\* Two execute_task calls interleaved with each other and with status polls.
NextConc ==
    \/ StartRejected
    \/ \E u \in Units, t \in TaskIds, task \in Tasks : StartTaskExecution(u, t, task)
    \/ \E t \in TaskIds : GetTaskStatus(t)
    \/ ListExecutions
    \/ \E u \in Units : ExecuteTask(u)
    \/ \E u \in Units : PlannerReturns(u, ConcPlans)
    \/ \E u \in Units, msg \in PlannerErrors : PlannerRaises(u, msg)
    \/ \E u \in Units : GateFails(u)
    \/ \E u \in Units : BeginStep(u)
    \/ \E u \in Units, payload \in Payloads : ExecutorReturns(u, payload)
    \/ \E u \in Units, msg \in ExecutorErrors : ExecutorRaises(u, msg)
    \/ \E u \in Units : UnknownStepType(u)
    \/ \E u \in Units : Complete(u)

SpecConc == Init /\ [][NextConc]_vars

\* The task ids of direct calls: two ids for two calls, so that the calls may
\* or may not collide.
DupIds == {"t1", "t2"}

\* Two direct execute_task calls whose task ids may be the same, interleaved
\* with each other and with status polls.
NextDup ==
    \/ \E u \in Units, t \in DupIds, task \in Tasks \ {""} : Invoke(u, t, task)
    \/ \E t \in DupIds : GetTaskStatus(t)
    \/ \E u \in Units : ExecuteTask(u)
    \/ \E u \in Units : PlannerReturns(u, ConcPlans)
    \/ \E u \in Units, msg \in PlannerErrors : PlannerRaises(u, msg)
    \/ \E u \in Units : GateFails(u)
    \/ \E u \in Units : BeginStep(u)
    \/ \E u \in Units, payload \in Payloads : ExecutorReturns(u, payload)
    \/ \E u \in Units, msg \in ExecutorErrors : ExecutorRaises(u, msg)
    \/ \E u \in Units : UnknownStepType(u)
    \/ \E u \in Units : Complete(u)

SpecDup == Init /\ [][NextDup]_vars


\* Two execute_task calls whose plans have browser steps only, interleaved
\* with each other and with the step callbacks of their browser runs.
NextBrowser ==
    \/ \E u \in Units, t \in DupIds, task \in Tasks : StartTaskExecution(u, t, task)
    \/ \E u \in Units : ExecuteTask(u)
    \/ \E u \in Units : PlannerReturns(u, BrowserPlans)
    \/ \E u \in Units : BeginStep(u)
    \/ \E u \in Units, action \in BrowserActions : StepCallback(u, action)
    \/ \E u \in Units, success \in BOOLEAN : BrowserReturns(u, success)
    \/ \E u \in Units : Complete(u)

SpecBrowser == Init /\ [][NextBrowser]_vars


\* ------------------------------------------------------ type check -------

TypeOK ==
    /\ pc \in [Units -> {"idle", "scheduled", "planning", "loop", "step", "done"}]
    /\ DOMAIN background \subseteq Units
    /\ DOMAIN exec \subseteq Units
    /\ DOMAIN executions \subseteq TaskIds
    /\ \A t \in DOMAIN executions : executions[t] \in DOMAIN exec
    /\ \A u \in Units : idx[u] \in 0 .. MaxSteps
    /\ \A u \in DOMAIN exec :
          /\ exec[u].status \in {"planning", "executing", "completed", "failed"}
          /\ \A k \in 1 .. Len(exec[u].steps) :
                exec[u].steps[k].status \in {"pending", "running", "completed", "failed"}

\* ------------------------------------------------- claim vocabulary ------

\* The descriptors of the plan a unit got from the planner.
Descs(u) == PlanSteps(plan[u][1])

\* The unit's planner call has returned.
Planned(u) == u \in DOMAIN exec /\ plan[u] # None

\* A descriptor declares no dependency: null or an empty list.
NoDependency(d) == d.dependencies = None \/ d.dependencies = Some(<< >>)

\* A step type one of the two executors takes.
KnownType(type) == type \in {"browser", "swe", "Browser", "SWE"}

AllKnownTypes(u) == \A k \in 1 .. Len(exec[u].steps) : KnownType(exec[u].steps[k].type)

\* No executor call of the unit has raised.
NoCallRaised(u) == \A n \in 1 .. Len(calls[u]) : calls[u][n].outcome # "raised"

\* The executor calls made so far are those of steps 0, 1, 2, ... in order,
\* each begun only after the one before has returned.
CallsAscending(u) ==
    \A n \in 1 .. Len(calls[u]) :
        /\ calls[u][n].step = n - 1
        /\ n < Len(calls[u]) => calls[u][n].outcome = "returned"

\* The end of a run in which every step was dispatched and completed.
CompletedAll(u) ==
    /\ exec[u].status = "completed"
    /\ exec[u].result # None
    /\ Len(exec[u].result[1].steps) = Len(Descs(u))
    /\ Len(calls[u]) = Len(Descs(u))

\* ------------------------------------------------------------ claims -----

\* C1 as stated: for every plan in which no step declares a dependency and
\* every executor call returns without raising, the steps are dispatched one
\* by one in ascending step_index order and execute_task ends "completed"
\* with result["steps"] as long as the plan.
C1_AsStated ==
    \A u \in Units :
        (Planned(u) /\ (\A k \in 1 .. Len(Descs(u)) : NoDependency(Descs(u)[k]))
                    /\ NoCallRaised(u))
        => /\ CallsAscending(u)
           /\ pc[u] = "done" => CompletedAll(u)

\* C1 amended: the same for plans in which, besides, every step's type is
\* "browser" or "swe" (in any case), so that every step has an executor.
C1_NoDependenciesAllComplete ==
    \A u \in Units :
        (Planned(u) /\ (\A k \in 1 .. Len(Descs(u)) : NoDependency(Descs(u)[k]))
                    /\ AllKnownTypes(u)
                    /\ NoCallRaised(u))
        => /\ CallsAscending(u)
           /\ pc[u] = "done" => CompletedAll(u)

C1_Witness ==
    /\ pc["A"] = "done"
    /\ Planned("A")
    /\ Len(Descs("A")) >= 2
    /\ \A k \in 1 .. Len(Descs("A")) : NoDependency(Descs("A")[k])
    /\ exec["A"].status = "completed"
    /\ Len(calls["A"]) = Len(Descs("A"))

\* C2: once a step i is reached while a dependency it declares itself names
\* an existing step that is not completed, the execution ends "failed" and
\* no step with an index above i is handed to an executor.
C2_OwnDependencyGates ==
    \A u \in Units : \A i \in unmetAtReach[u] :
        /\ \A n \in 1 .. Len(calls[u]) : calls[u][n].step <= i
        /\ pc[u] = "done" => exec[u].status = "failed"

\* Every dependency index a descriptor declares is below the descriptor's own.
BackwardOnly(descs) ==
    \A k \in 1 .. Len(descs) :
        descs[k].dependencies # None =>
            \A n \in 1 .. Len(descs[k].dependencies[1]) : descs[k].dependencies[1][n] < k - 1

\* C3: in a plan whose declared dependencies all point backwards, a step that
\* declares a dependency is dispatched when the executors of the earlier steps
\* succeed; and when the executor of step 0 raises, the execution is "failed"
\* and a dependent step is still "pending".
C3_DependentStepDispatched ==
    \A u \in Units :
        (pc[u] = "done" /\ Planned(u) /\ BackwardOnly(Descs(u)) /\ AllKnownTypes(u))
        => \A k \in 2 .. Len(Descs(u)) :
              ~NoDependency(Descs(u)[k]) =>
                  /\ NoCallRaised(u) => exec[u].steps[k].status # "pending"
                  /\ (Len(calls[u]) = 1 /\ calls[u][1].outcome = "raised")
                        => /\ exec[u].status = "failed"
                           /\ exec[u].steps[k].status = "pending"

\* C4: when the planner raises, execute_task ends "failed" with no steps,
\* the planner's message as the error, and no executor call.
C4_PlannerRaises ==
    \A u \in Units :
        (pc[u] = "done" /\ plan[u] = None)
        => /\ exec[u].status = "failed"
           /\ exec[u].steps = << >>
           /\ exec[u].error # None
           /\ exec[u].error[1] \in PlannerErrors
           /\ exec[u].result = None
           /\ calls[u] = << >>

C4_Witness == pc["A"] = "done" /\ plan["A"] = None /\ exec["A"].status = "failed"

\* C5: fail-fast on an executor error.  When the executor of step i raises,
\* step i is "failed" with its error set, the execution is "failed" with an
\* error naming i, the later steps are "pending" and never called, the
\* earlier steps are "completed" with their results, step i was called once,
\* and the raise leaves the earlier steps as they were.
C5_RaisedState ==
    \A u \in Units : \A n \in 1 .. Len(calls[u]) :
        calls[u][n].outcome = "raised" =>
            LET i == calls[u][n].step
                e == exec[u]
            IN  /\ pc[u] = "done"
                /\ n = Len(calls[u])
                /\ \A m \in 1 .. Len(calls[u]) : calls[u][m].step = i => m = n
                /\ e.steps[i + 1].status = "failed"
                /\ e.steps[i + 1].error # None
                /\ e.steps[i + 1].result = None
                /\ e.status = "failed"
                /\ e.error = Some("Step " \o ToString(i) \o " failed: " \o e.steps[i + 1].error[1])
                /\ e.result = None
                /\ \A k \in 1 .. Len(e.steps) :
                      /\ k > i + 1 => e.steps[k] = TaskStep(k - 1, e.steps[k].type, e.steps[k].instruction)
                      /\ k < i + 1 => e.steps[k].status = "completed" /\ e.steps[k].result # None

C5_NoRollback ==
    \A u \in Units :
        (pc[u] = "step" /\ pc'[u] = "done")
        => \A k \in 1 .. idx[u] : exec'[u].steps[k] = exec[u].steps[k]

\* C5: fail-fast on an executor error, as a state invariant (C5_RaisedState)
\* and a condition on the raising step (C5_NoRollback).
C5_FailFast == []C5_RaisedState /\ [][C5_NoRollback]_vars

C5_Witness ==
    /\ pc["A"] = "done"
    /\ Len(exec["A"].steps) = 2
    /\ Len(calls["A"]) = 2
    /\ calls["A"][2].outcome = "raised"
    /\ exec["A"].steps[1].status = "completed"
    /\ exec["A"].steps[2].status = "failed"

\* C6: a step whose type is neither "browser" nor "swe" (a descriptor without
\* a type is stored as "unknown") is built like any other step, is never
\* handed to an executor and never completes; once dispatched it fails with
\* an error naming its type, the execution fails, and the later steps stay
\* "pending".
C6_Built ==
    \A u \in Units :
        Planned(u) =>
            /\ Len(exec[u].steps) = Len(Descs(u))
            /\ \A k \in 1 .. Len(Descs(u)) :
                  /\ Descs(u)[k].type = None => exec[u].steps[k].type = "unknown"
                  /\ Descs(u)[k].type # None => exec[u].steps[k].type = Descs(u)[k].type[1]
                  /\ ~KnownType(exec[u].steps[k].type) =>
                        /\ exec[u].steps[k].status # "completed"
                        /\ exec[u].steps[k].result = None
                        /\ \A n \in 1 .. Len(calls[u]) : calls[u][n].step # k - 1

C6_DispatchFails ==
    \A u \in Units :
        (pc[u] = "step" /\ pc'[u] # "step" /\ ~KnownType(exec[u].steps[idx[u] + 1].type))
        => LET k == idx[u] + 1
               type == exec[u].steps[k].type
           IN  /\ pc'[u] = "done"
               /\ exec'[u].steps[k].status = "failed"
               /\ exec'[u].steps[k].error = Some("Unknown step type: " \o type)
               /\ exec'[u].status = "failed"
               /\ exec'[u].error =
                     Some("Step " \o ToString(k - 1) \o " failed: Unknown step type: " \o type)
               /\ \A j \in k + 1 .. Len(exec[u].steps) : exec'[u].steps[j].status = "pending"
               /\ calls'[u] = calls[u]

\* C6: a step of unknown type is built (C6_Built) and fails when dispatched
\* (C6_DispatchFails).
C6_UnknownTypeFailsAtDispatch == []C6_Built /\ [][C6_DispatchFails]_vars

C6_Witness ==
    /\ pc["A"] = "done"
    /\ Len(exec["A"].steps) = 2
    /\ Descs("A")[1].type = None
    /\ exec["A"].steps[1].error = Some("Unknown step type: unknown")
    /\ exec["A"].steps[2].status = "pending"
    /\ exec["A"].status = "failed"

\* The steps execute_task can take from where the unit is.
Continue(u) ==
    \/ PlannerReturns(u, Plans)
    \/ \E msg \in PlannerErrors : PlannerRaises(u, msg)
    \/ GateFails(u)
    \/ BeginStep(u)
    \/ \E payload \in Payloads : ExecutorReturns(u, payload)
    \/ \E msg \in ExecutorErrors : ExecutorRaises(u, msg)
    \/ UnknownStepType(u)
    \/ Complete(u)

\* C7: whatever the planner and the executors do, execute_task goes on until
\* it returns, and the execution it returns is "completed" or "failed".
C7_AlwaysReturnsTerminal ==
    \A u \in Units :
        /\ pc[u] = "done" => u \in DOMAIN exec /\ exec[u].status \in {"completed", "failed"}
        /\ pc[u] \in {"planning", "loop", "step"} =>
              /\ exec[u].status \in {"planning", "executing"}
              /\ ENABLED Continue(u)

C7_Witness ==
    /\ pc["A"] = "done"
    /\ Planned("A")
    /\ exec["A"].status = "failed"
    /\ calls["A"] = << >>
    /\ Len(exec["A"].steps) = 2
    /\ KnownType(exec["A"].steps[1].type)
    /\ exec["A"].steps[1].status = "failed"

\* C8: while a unit's planner call is in flight, get_execution of its task id
\* finds its record, in status "planning" and without steps, and so does a
\* status poll answered at that time.
C8_PlanningVisible ==
    \A u \in Units :
        pc[u] = "planning" =>
            LET t == background[u].task_id
            IN  /\ GetExecution(t) # None
                /\ GetExecution(t)[1].task_id = t
                /\ GetExecution(t)[1].status = "planning"
                /\ GetExecution(t)[1].steps = << >>
                /\ (response.route = "status" /\ response.task_id = Some(t))
                      => /\ response.code = 200
                         /\ response.body[1].status = "planning"
                         /\ response.body[1].steps = << >>

C8_Witness ==
    /\ pc["A"] = "planning"
    /\ pc["B"] = "step"
    /\ response.route = "status"
    /\ response.task_id = Some(background["A"].task_id)

\* C9: a status poll for a task id the start route has handed out is never
\* answered with not-found.
C9_PollAfterStartFinds ==
    (/\ response.route = "status"
     /\ \E u \in DOMAIN background : Some(background[u].task_id) = response.task_id)
    => response.code = 200

\* The record get_execution finds under the unit's task id is the same before
\* and after the step.
StoredUnchanged(b) ==
    b \in DOMAIN background =>
        LET t == background[b].task_id
        IN  IF t \in DOMAIN executions
            THEN t \in DOMAIN executions' /\ exec'[executions'[t]] = exec[executions[t]]
            ELSE t \notin DOMAIN executions'

\* C10: registry isolation.  The record under a running unit's task id is the
\* object that unit works on, and a step of one unit leaves the record stored
\* under the other unit's task id as it was.
C10_OwnRecord ==
    \A a \in Units :
        pc[a] \in {"planning", "loop", "step", "done"} =>
            /\ background[a].task_id \in DOMAIN executions
            /\ executions[background[a].task_id] = a
            /\ exec[a].task_id = background[a].task_id

C10_StepIsolated ==
    \A a \in Units, b \in Units :
        (a # b /\ pc'[a] # pc[a]) => StoredUnchanged(b)

\* C10: registry isolation, as a state invariant (C10_OwnRecord) and a
\* condition on every step of a unit (C10_StepIsolated).
C10_RegistryIsolation == []C10_OwnRecord /\ [][C10_StepIsolated]_vars

C10_Witness ==
    /\ pc["A"] = "step"
    /\ pc["B"] = "loop"
    /\ idx["B"] = 1
    /\ exec["A"].steps # exec["B"].steps

\* C11: get_execution is a pure lookup.  A status poll changes neither the
\* registry nor any execution nor where any unit is; a poll of an unknown id
\* is answered not-found and creates no entry; and a poll that directly
\* follows a poll of the same id gets the same answer.
C11_PollStep ==
    response'.route = "status" =>
        /\ executions' = executions
        /\ exec' = exec
        /\ << pc, background, plan, idx, calls >> ' = << pc, background, plan, idx, calls >>
        /\ response'.task_id[1] \notin DOMAIN executions =>
              /\ response'.code = 404
              /\ response'.task_id[1] \notin DOMAIN executions'
        /\ response'.task_id[1] \in DOMAIN executions =>
              /\ response'.code = 200
              /\ response'.body = Some(exec[executions[response'.task_id[1]]])
        /\ (response.route = "status" /\ response.task_id = response'.task_id)
              => response' = response

C11_PureLookup == [][C11_PollStep]_vars

C11_Witness ==
    /\ response.route = "status"
    /\ response.code = 200
    /\ response.body[1].status = "executing"
    /\ \E t \in TaskIds : t \notin DOMAIN executions

\* The status changes an execution may go through.
ExecutionTransitions ==
    {<< "planning", "executing" >>, << "executing", "completed" >>,
     << "executing", "failed" >>, << "planning", "failed" >>}

\* C12: the status of an execution changes only along planning -> executing,
\* executing -> completed, executing -> failed and planning -> failed, and an
\* execution that is "completed" or "failed" is never modified again.
C12_ExecutionStep ==
    \A u \in DOMAIN exec :
        /\ u \in DOMAIN exec'
        /\ exec'[u].status # exec[u].status =>
              << exec[u].status, exec'[u].status >> \in ExecutionTransitions
        /\ exec[u].status \in {"completed", "failed"} => exec'[u] = exec[u]

C12_ExecutionTransitions == [][C12_ExecutionStep]_vars

C12_Witness ==
    /\ pc["A"] = "done"
    /\ exec["A"].status = "failed"
    /\ plan["A"] = None

\* The step status changes of C13 as stated, and with the gate's.
StepTransitionsStated ==
    {<< "pending", "running" >>, << "running", "completed" >>, << "running", "failed" >>}

StepTransitionsGated == StepTransitionsStated \cup {<< "pending", "failed" >>}

StepStatusesFollow(allowed) ==
    \A u \in DOMAIN exec :
        \A k \in 1 .. Len(exec[u].steps) :
            /\ Len(exec'[u].steps) = Len(exec[u].steps)
            /\ exec'[u].steps[k].status # exec[u].steps[k].status =>
                  << exec[u].steps[k].status, exec'[u].steps[k].status >> \in allowed

\* C13 as stated: a step's status changes only along pending -> running,
\* running -> completed and running -> failed, so a step is never "failed"
\* or "completed" without having been "running".
C13_AsStated == [][StepStatusesFollow(StepTransitionsStated)]_vars

\* C13 amended: a step's status changes only along pending -> running,
\* running -> completed, running -> failed and, when the dependency gate
\* trips, pending -> failed; a step is never "completed" without having been
\* "running", and a "completed" or "failed" step never changes status again.
C13_StepTransitions == [][StepStatusesFollow(StepTransitionsGated)]_vars

C13_Witness ==
    /\ pc["A"] = "done"
    /\ Len(exec["A"].steps) = 2
    /\ exec["A"].steps[1].status = "failed"
    /\ exec["A"].steps[1].error = Some("Dependency 1 not completed")
    /\ exec["A"].steps[2].status = "pending"
    /\ calls["A"] = << >>

\* C14: the steps of an execution run strictly one after the other: a step is
\* out of "pending" only when the step before it is "completed" or "failed",
\* and at most one step is "running".
C14_Sequential ==
    \A u \in DOMAIN exec :
        /\ Cardinality({k \in 1 .. Len(exec[u].steps) : exec[u].steps[k].status = "running"}) <= 1
        /\ \A k \in 2 .. Len(exec[u].steps) :
              exec[u].steps[k].status # "pending" =>
                  exec[u].steps[k - 1].status \in {"completed", "failed"}

C14_Witness ==
    /\ pc["A"] = "step"
    /\ Len(exec["A"].steps) = 2
    /\ \A k \in 1 .. 2 : NoDependency(Descs("A")[k])
    /\ exec["A"].steps[1].status = "completed"
    /\ exec["A"].steps[2].status = "running"

\* C15: an executor that returns a payload with success false has not raised:
\* the step is "completed" with that payload as its result and no error, the
\* execution goes on with the next step, and it can still end "completed".
C15_FailurePayloadState ==
    \A u \in DOMAIN exec :
        \A k \in 1 .. Len(exec[u].steps) :
            exec[u].steps[k].result = Some([success |-> FALSE]) =>
                /\ exec[u].steps[k].status = "completed"
                /\ exec[u].steps[k].error = None

C15_ReturnStep ==
    \A u \in Units :
        (pc[u] = "step" /\ pc'[u] = "loop")
        => /\ exec'[u].steps[idx[u] + 1].status = "completed"
           /\ exec'[u].steps[idx[u] + 1].result \in {Some(p) : p \in Payloads}
           /\ exec'[u].status = "executing"
           /\ idx'[u] = idx[u] + 1

\* C15: the state invariant (C15_FailurePayloadState) and the condition on an
\* executor's return (C15_ReturnStep).
C15_FailurePayloadCompletes == []C15_FailurePayloadState /\ [][C15_ReturnStep]_vars

C15_Witness ==
    /\ pc["A"] = "done"
    /\ exec["A"].status = "completed"
    /\ Len(exec["A"].steps) = 2
    /\ exec["A"].steps[1].result = Some([success |-> FALSE])
    /\ exec["A"].steps[2].status = "completed"

\* The unit has registered an execution and has not returned yet.
Running(u) == pc[u] \in {"planning", "loop", "step"}

\* The unit's record has been replaced in the registry by a later call.
Replaced(u) == u \in DOMAIN exec /\ executions[background[u].task_id] # u

\* C16: execute_task checks no uniqueness.  Called with a task id the
\* registry already holds, it puts a fresh "planning" record in the place of
\* the stored one; the earlier call, if still running, goes on changing the
\* object it created, and get_execution of the id never shows those changes.
C16_InsertStep ==
    \A u \in Units :
        (pc[u] = "scheduled" /\ pc'[u] = "planning")
        => LET t == background[u].task_id
           IN  /\ executions'[t] = u
               /\ exec'[executions'[t]].status = "planning"
               /\ exec'[executions'[t]].steps = << >>
               /\ exec'[executions'[t]].task_id = t
               /\ \A v \in DOMAIN exec : exec'[v] = exec[v]

C16_ReplacedStep ==
    \A u \in Units :
        (Replaced(u) /\ pc'[u] # pc[u])
        => LET t == background[u].task_id
           IN  /\ executions'[t] = executions[t]
               /\ exec'[executions'[t]] = exec[executions[t]]
               /\ Replaced(u)'

\* C16: the condition on the registering step (C16_InsertStep) and on every
\* step of a call whose record was replaced (C16_ReplacedStep).
C16_DuplicateIdOverwrites == [][C16_InsertStep]_vars /\ [][C16_ReplacedStep]_vars

C16_Witness ==
    /\ pc["A"] = "done"
    /\ pc["B"] = "planning"
    /\ background["A"].task_id = background["B"].task_id
    /\ executions[background["A"].task_id] = "B"
    /\ exec["A"].status = "completed"
    /\ exec["B"].status = "planning"
    /\ response.route = "status"
    /\ response.body = Some(exec["B"])

\* C17: for every step, a result is set only on a "completed" step and an
\* error only on a "failed" one; a "failed" step has its error set and a
\* "completed" step has an executor payload as its result.
C17_StepResultAndError ==
    \A u \in DOMAIN exec :
        \A k \in 1 .. Len(exec[u].steps) :
            LET step == exec[u].steps[k]
            IN  /\ step.result # None => step.status = "completed"
                /\ step.error # None => step.status = "failed"
                /\ step.status = "failed" => step.error # None
                /\ step.status = "completed" => step.result \in {Some(p) : p \in Payloads}

C17_Witness ==
    /\ pc["A"] = "done"
    /\ Len(exec["A"].steps) = 2
    /\ exec["A"].steps[1].result = Some([success |-> TRUE])
    /\ exec["A"].steps[2].error = Some("executor crashed")

\* C18: for every execution, a result is set only when it is "completed" and
\* an error only when it is "failed"; a "failed" execution has its error set
\* and a "completed" one has, as result["steps"], the list of all its steps
\* as serialized.
C18_ExecutionResultAndError ==
    \A u \in DOMAIN exec :
        LET e == exec[u]
        IN  /\ e.result # None => e.status = "completed"
            /\ e.error # None => e.status = "failed"
            /\ e.status = "failed" => e.error # None
            /\ e.status = "completed" =>
                  /\ e.result # None
                  /\ Len(e.result[1].steps) = Len(e.steps)
                  /\ \A k \in 1 .. Len(e.steps) : e.result[1].steps[k] = e.steps[k]

C18_Witness ==
    /\ pc["A"] = "done"
    /\ exec["A"].status = "completed"
    /\ Len(exec["A"].steps) = 2
    /\ exec["A"].result[1].steps[2].status = "completed"

\* C19: current_step starts at 0 and never decreases; it is i from the moment
\* step i begins processing; and whenever the execution has steps it is an
\* index into them.
C19_CurrentStepState ==
    \A u \in DOMAIN exec :
        LET e == exec[u]
        IN  /\ pc[u] = "planning" => e.current_step = 0
            /\ pc[u] = "step" => e.current_step = idx[u]
            /\ (pc[u] = "loop" /\ idx[u] > 0) => e.current_step = idx[u] - 1
            /\ (pc[u] = "loop" /\ idx[u] = 0) => e.current_step = 0
            /\ Len(e.steps) > 0 => e.current_step \in 0 .. Len(e.steps) - 1

C19_CurrentStepStep ==
    \A u \in DOMAIN exec : exec'[u].current_step >= exec[u].current_step

\* C19: the state invariant (C19_CurrentStepState) and the condition on
\* every step (C19_CurrentStepStep).
C19_CurrentStepMonotonic == []C19_CurrentStepState /\ [][C19_CurrentStepStep]_vars

C19_Witness ==
    /\ pc["A"] = "step"
    /\ idx["A"] = 1
    /\ exec["A"].current_step = 1
    /\ Len(exec["A"].steps) = 2

\* C20: the steps are built once, one per descriptor in plan order, with
\* step_index k for descriptor k, the descriptor's type and instruction
\* ("unknown" and "" for an absent key) and status "pending"; from then on
\* the list keeps its length and order and no step's step_index, type or
\* instruction changes.
C20_StepsFromPlan ==
    \A u \in DOMAIN exec :
        /\ plan[u] = None => exec[u].steps = << >>
        /\ plan[u] # None =>
              /\ Len(exec[u].steps) = Len(Descs(u))
              /\ \A k \in 1 .. Len(Descs(u)) :
                    /\ exec[u].steps[k].step_index = k - 1
                    /\ exec[u].steps[k].type =
                          (IF Descs(u)[k].type = None THEN "unknown" ELSE Descs(u)[k].type[1])
                    /\ exec[u].steps[k].instruction =
                          (IF Descs(u)[k].instruction = None THEN ""
                           ELSE Descs(u)[k].instruction[1])

C20_StepsStep ==
    \A u \in DOMAIN exec :
        /\ (plan[u] = None /\ plan'[u] # None) =>
              \A k \in 1 .. Len(exec'[u].steps) :
                  /\ exec'[u].steps[k].status = "pending"
                  /\ exec'[u].steps[k].result = None
                  /\ exec'[u].steps[k].error = None
        /\ plan[u] # None =>
              /\ plan'[u] = plan[u]
              /\ Len(exec'[u].steps) = Len(exec[u].steps)
              /\ \A k \in 1 .. Len(exec[u].steps) :
                    /\ exec'[u].steps[k].step_index = exec[u].steps[k].step_index
                    /\ exec'[u].steps[k].type = exec[u].steps[k].type
                    /\ exec'[u].steps[k].instruction = exec[u].steps[k].instruction

\* C20: the state invariant (C20_StepsFromPlan) and the condition on every
\* step (C20_StepsStep).
C20_StepsBuiltOnce == []C20_StepsFromPlan /\ [][C20_StepsStep]_vars

C20_Witness ==
    /\ pc["A"] = "done"
    /\ Len(exec["A"].steps) = 2
    /\ Descs("A")[1].type = Some("SWE")
    /\ Descs("A")[1].instruction = None
    /\ Descs("A")[2].instruction = Some("search flights")
    /\ exec["A"].steps[2].status = "completed"

\* The messages of a step the gate has failed.
DependencyMessages == {Some(DependencyMessage(j)) : j \in DepIdx}

\* Step i of the unit was failed by the gate.
GateFailedAt(u, i) ==
    /\ exec[u].steps[i + 1].status = "failed"
    /\ exec[u].steps[i + 1].error \in DependencyMessages

\* An executor was called for step i of the unit.
Dispatched(u, i) == \E n \in 1 .. Len(calls[u]) : calls[u][n].step = i

\* Step i declares an index above its own that names a step of the plan.
ForwardReference(u, i) ==
    LET d == OwnDependencies(u, i)
    IN  /\ d # None
        /\ \E n \in 1 .. Len(d[1]) : d[1][n] > i /\ d[1][n] < Len(Descs(u))

\* Step i declares dependencies, and none of them names a step of the plan.
AllOutOfRange(u, i) ==
    LET d == OwnDependencies(u, i)
    IN  /\ Truthy(d)
        /\ \A n \in 1 .. Len(d[1]) : d[1][n] < 0 \/ d[1][n] >= Len(Descs(u))

\* C22: once the loop has reached a step i that declares a forward reference,
\* step i is "failed" by the gate with a dependency message, no executor was
\* called for it and the execution is "failed".
C22_ForwardReferenceFails ==
    \A u \in Units : \A i \in unmetAtReach[u] :
        ForwardReference(u, i) =>
            /\ GateFailedAt(u, i)
            /\ ~Dispatched(u, i)
            /\ exec[u].status = "failed"

\* C23: a step whose declared dependencies are all out of range is never
\* failed by the gate: once it has left "pending" it was handed to the
\* executor of its type (or failed for its unknown type), as a step with no
\* dependencies is.
C23_OutOfRangeIgnored ==
    \A u \in Units :
        Planned(u) =>
            \A i \in 0 .. Len(Descs(u)) - 1 :
                (AllOutOfRange(u, i) /\ exec[u].steps[i + 1].status # "pending") =>
                    /\ ~GateFailedAt(u, i)
                    /\ KnownType(exec[u].steps[i + 1].type) => Dispatched(u, i)

\* The step of a unit in which the gate aborts its execution at step i on
\* the unmet dependency j.
GateAborts(u, i, j) ==
    /\ pc[u] = "loop"
    /\ pc'[u] = "done"
    /\ idx[u] = i
    /\ exec'[u].steps[i + 1].error = Some(DependencyMessage(j))

C24_AbortStep ==
    \A u \in Units : \A i \in 0 .. MaxSteps - 1 :
        (pc[u] = "loop" /\ pc'[u] = "done" /\ idx[u] = i /\ i < Len(exec[u].steps)) =>
            \E j \in 0 .. Len(exec[u].steps) - 1 :
                /\ GateAborts(u, i, j)
                /\ exec[u].steps[j + 1].status # "completed"
                /\ exec'[u].steps[i + 1].status = "failed"
                /\ exec'[u].error = Some("Step " \o ToString(i) \o " failed: Dependency "
                                         \o ToString(j) \o " not completed")
                /\ exec'[u].status = "failed"
                /\ calls'[u] = calls[u]
                /\ ~Dispatched(u, i)
                /\ \A k \in 1 .. Len(exec[u].steps) :
                      k # i + 1 => exec'[u].steps[k] = exec[u].steps[k]

\* C24: the step in which the gate aborts an execution at step i makes no
\* executor call, writes the same unmet dependency index into step.error and
\* execution.error (the latter with i), is the last step of execute_task and
\* leaves every other step as it was.
C24_GateAbort == [][C24_AbortStep]_vars

C24_Witness ==
    /\ pc["A"] = "done"
    /\ Planned("A")
    /\ Len(exec["A"].steps) = 2
    /\ exec["A"].steps[1].error = Some("Dependency 1 not completed")
    /\ exec["A"].error = Some("Step 0 failed: Dependency 1 not completed")
    /\ exec["A"].steps[1].type = "browser"
    /\ calls["A"] = << >>

\* The last descriptor declares an index that names a step of the plan.
LastInRange(u) ==
    /\ Len(Descs(u)) > 0
    /\ LET d == Descs(u)[Len(Descs(u))].dependencies
       IN  /\ d # None
           /\ \E n \in 1 .. Len(d[1]) : d[1][n] >= 0 /\ d[1][n] < Len(Descs(u))

\* The last descriptor declares no dependency.
LastDeclaresNone(u) == Len(Descs(u)) > 0 /\ NoDependency(Descs(u)[Len(Descs(u))])

\* C25: the gate of every step consults the last descriptor's list. When
\* that list holds an in-range index, no executor is ever called and
\* execute_task ends "failed" with step 0 failed by the gate; when the last
\* descriptor declares none, the gate never fails a step; and an index named
\* in a step's dependency message is one the last descriptor declares.
C25_LastDescriptorGates ==
    \A u \in Units :
        Planned(u) =>
            /\ LastInRange(u) =>
                  /\ calls[u] = << >>
                  /\ pc[u] \in {"loop", "done"}
                  /\ pc[u] = "loop" => ENABLED GateFails(u) /\ ~ENABLED BeginStep(u)
                  /\ pc[u] = "done" =>
                        /\ exec[u].status = "failed"
                        /\ exec[u].current_step = 0
                        /\ GateFailedAt(u, 0)
            /\ LastDeclaresNone(u) =>
                  /\ \A i \in 0 .. Len(Descs(u)) - 1 : ~GateFailedAt(u, i)
                  /\ ~ENABLED GateFails(u)
            /\ \A i \in 0 .. Len(Descs(u)) - 1 : \A j \in DepIdx :
                  exec[u].steps[i + 1].error = Some(DependencyMessage(j)) =>
                      \E n \in 1 .. Len(Descs(u)[Len(Descs(u))].dependencies[1]) :
                          Descs(u)[Len(Descs(u))].dependencies[1][n] = j

C25_Witness ==
    /\ pc["A"] = "done"
    /\ Planned("A")
    /\ Len(Descs("A")) = 2
    /\ NoDependency(Descs("A")[1])
    /\ Descs("A")[2].dependencies = Some(<< 0 >>)
    /\ AllKnownTypes("A")
    /\ GateFailedAt("A", 0)
    /\ exec["A"].status = "failed"
    /\ calls["A"] = << >>

\* C26: the steps below current_step are "completed", the steps above it are
\* "pending", a "failed" step is steps[current_step], and in a "completed"
\* execution every step is "completed".
C26_PrefixPattern ==
    \A u \in DOMAIN exec :
        \A k \in 1 .. Len(exec[u].steps) :
            /\ k - 1 < exec[u].current_step => exec[u].steps[k].status = "completed"
            /\ k - 1 > exec[u].current_step => exec[u].steps[k].status = "pending"
            /\ exec[u].steps[k].status = "failed" => k - 1 = exec[u].current_step
            /\ exec[u].status = "completed" => exec[u].steps[k].status = "completed"

C26_Witness ==
    /\ pc["A"] = "done"
    /\ Len(exec["A"].steps) = 2
    /\ exec["A"].current_step = 1
    /\ exec["A"].steps[1].status = "completed"
    /\ exec["A"].steps[2].status = "failed"
    /\ exec["A"].status = "failed"

\* The planner's result has no step: no "steps" key, or an empty list.
ZeroSteps(u) == plan[u] # None /\ plan[u][1].steps \in {None, Some(<< >>)}

\* C29: with a plan of zero steps execute_task is "executing" with nothing
\* left but to complete, and ends "completed" with steps == [], result
\* {"steps": []}, current_step 0, no error and no executor call.
C29_ZeroStepPlan ==
    \A u \in DOMAIN exec :
        ZeroSteps(u) =>
            /\ pc[u] \in {"loop", "done"}
            /\ exec[u].steps = << >>
            /\ exec[u].current_step = 0
            /\ exec[u].error = None
            /\ calls[u] = << >>
            /\ pc[u] = "loop" =>
                  /\ exec[u].status = "executing"
                  /\ ENABLED Complete(u)
                  /\ ~ENABLED GateFails(u)
                  /\ ~ENABLED BeginStep(u)
            /\ pc[u] = "done" =>
                  /\ exec[u].status = "completed"
                  /\ exec[u].result = Some([steps |-> << >>])

C29_Witness ==
    /\ pc["A"] = "done"
    /\ plan["A"] = Some([steps |-> None])
    /\ exec["A"].status = "completed"
    /\ exec["A"].result = Some([steps |-> << >>])

\* execute_task has been entered for the unit's task id.
Started(u) == pc[u] \in {"planning", "loop", "step", "done"}

C21_RegistryState ==
    /\ \A u \in Units : Started(u) => background[u].task_id \in DOMAIN executions
    /\ response.route = "executions" =>
          /\ DOMAIN response.body[1] = DOMAIN executions
          /\ \A u \in Units :
                Started(u) =>
                    response.body[1][background[u].task_id] = exec[executions[background[u].task_id]]

C21_RegistryStep == DOMAIN executions \subseteq DOMAIN executions'

\* C21: no step of execute_task, get_execution or get_executions takes a
\* task id out of the registry; the id of every execute_task call that has
\* begun is in the registry, and get_executions returns the record of each
\* of them, finished or not.
C21_RegistryOnlyGrows == []C21_RegistryState /\ [][C21_RegistryStep]_vars

C21_Witness ==
    /\ response.route = "executions"
    /\ pc["A"] = "planning"
    /\ pc["B"] = "step"
    /\ response.body[1][background["A"].task_id].status = "planning"
    /\ response.body[1][background["B"].task_id].status = "executing"

\* Descriptors and plans of the specification with fairness: a type with an
\* executor and one without, and a dependency list that is null, names
\* step 0 or names step 1.
LiveDescriptors ==
    [type : {Some("browser"), Some("database")},
     instruction : {Some("search flights")},
     dependencies : {None, Some(<< 0 >>), Some(<< 1 >>)}]

LivePlans == [steps : {None} \cup {Some(s) : s \in SeqsUpTo(LiveDescriptors, MaxSteps)}]

NextLive ==
    \/ \E u \in SoloUnits, t \in SoloIds, task \in Tasks : StartTaskExecution(u, t, task)
    \/ \E u \in SoloUnits : ExecuteTask(u)
    \/ \E u \in SoloUnits : PlannerReturns(u, LivePlans)
    \/ \E u \in SoloUnits, msg \in PlannerErrors : PlannerRaises(u, msg)
    \/ \E u \in SoloUnits : GateFails(u)
    \/ \E u \in SoloUnits : BeginStep(u)
    \/ \E u \in SoloUnits, payload \in Payloads : ExecutorReturns(u, payload)
    \/ \E u \in SoloUnits, msg \in ExecutorErrors : ExecutorRaises(u, msg)
    \/ \E u \in SoloUnits : UnknownStepType(u)
    \/ \E u \in SoloUnits : Complete(u)

\* One execute_task call in which the event loop runs the queued background
\* unit, and the planner call and every executor call return or raise.
SpecLive ==
    /\ Init
    /\ [][NextLive]_vars
    /\ \A u \in SoloUnits : WF_vars(ExecuteTask(u)) /\ WF_vars(Continue(u))

\* No step of the unit was handed to an executor twice.
OneDispatchPerStep(u) ==
    \A n, m \in 1 .. Len(calls[u]) : calls[u][n].step = calls[u][m].step => n = m

\* execute_task has returned a finished execution.
Finished(u) == pc[u] = "done" /\ exec[u].status \in {"completed", "failed"}

\* C27: when the planner call and every executor call return or raise, every
\* execution that execute_task has created ends "completed" or "failed", and
\* no step is dispatched more than once on the way.
C27_Terminates ==
    /\ [](\A u \in SoloUnits : OneDispatchPerStep(u))
    /\ \A u \in SoloUnits : (u \in DOMAIN exec) ~> Finished(u)

C27_Witness ==
    /\ Finished("A")
    /\ Len(calls["A"]) = 2
    /\ calls["A"][1].step = 0
    /\ calls["A"][2].step = 1
    /\ calls["A"][2].outcome = "raised"

\* C28: the trace in the result recorded for a browser step holds only the
\* actions the browser run of that step's own execution reported.
C28_OwnTraceOnly ==
    \A u \in DOMAIN exec :
        \A k \in 1 .. Len(exec[u].steps) :
            exec[u].steps[k].result # None =>
                \A n \in 1 .. Len(exec[u].steps[k].result[1].steps) :
                    exec[u].steps[k].result[1].steps[n].run = u

====
